---- MODULE Spec2Model ----
(***************************************************************************)
(* Message lifecycle (backend message.controller.js), notification fan-out *)
(* and the client chat store (useChatStore) of Beyonder_Chat.              *)
(*                                                                         *)
(* The server handlers are async functions: every `await` is a point at    *)
(* which another request may run, so each handler is split at the awaits   *)
(* that separate its read of the message row, its save and its emission.   *)
(* One client process (the browser of user Me) is modelled in full; the    *)
(* other users act on the server and are seen through the router's         *)
(* delivery record.                                                        *)
(***************************************************************************)
EXTENDS Integers, Sequences, FiniteSets, TLC

\* ------------------------------------------------------------------ bounds
MaxMessages == 2
StoreMessages == 1
MaxInFlight == 2
MaxInbox == 2
MaxName == 2
MaxTime == 2
MaxRequests == 2

\* ------------------------------------------------------------------ values
Users == {"X", "Y", "Z"}
Groups == {"G"}
Null == "null"
Me == "X"

\* characters: 0 is the blank, 1..AlphabetSize are letters
Blank == 0
AlphabetSize == 3
encryptionKey == 4
NullText == <<>>

\* request payloads tried: <<text, image>> for a send, newText for an edit
SendPayloads == {<< <<>>, Null >>, << <<Blank>>, Null >>, << <<1>>, Null >>, << <<>>, "img" >>}
EditTexts == {<<>>, <<2>>}

Slots == 1..MaxInFlight
MessageIds == 1..MaxMessages
SocketIds == 1..3
EventNames == {"newMessage", "messageDeleted", "messageEdited", "messagePinned"}

\* ------------------------------------------------------------------ content pipeline
\* String.prototype.trim: strip leading and trailing blanks
RECURSIVE TrimLeft(_)
TrimLeft(t) ==
    IF t = <<>> THEN <<>>
    ELSE IF Head(t) = Blank THEN TrimLeft(Tail(t)) ELSE t

RECURSIVE TrimRight(_)
TrimRight(t) ==
    IF t = <<>> THEN <<>>
    ELSE IF t[Len(t)] = Blank THEN TrimRight(SubSeq(t, 1, Len(t) - 1)) ELSE t

\* variant: the text is tested as it was posted
trimNothing(t) == t

trim(t) == TrimRight(TrimLeft(t))

\* lib/caesarCipher.js: letters are shifted by the key, other characters kept
encryptCaesar(t) ==
    [i \in DOMAIN t |->
        IF t[i] = Blank THEN Blank
        ELSE ((t[i] - 1 + encryptionKey) % AlphabetSize) + 1]

decryptCaesar(t) ==
    [i \in DOMAIN t |->
        IF t[i] = Blank THEN Blank
        ELSE ((t[i] - 1 + AlphabetSize * encryptionKey - encryptionKey) % AlphabetSize) + 1]

\* ------------------------------------------------------------------ state
VARIABLES
    db,             \* Message collection: sequence of rows, row i has _id = i
    members,        \* Group.members, per group
    userSocketMap,  \* lib/socket.js: user -> socket id of its session, 0 if none
    rooms,          \* channel rooms: group -> users whose socket joined the room
    reqs,           \* requests in flight, one per slot
    inbox,          \* events on the channel to Me's socket, oldest first
    messages,       \* useChatStore.messages
    selectedUser,   \* useChatStore.selectedUser
    socket,         \* useAuthStore.socket: socket id, 0 if null
    currentSocket,  \* closure variable currentSocket: socket id, 0 if null
    handlers,       \* the four closure handler slots: the socket the slot's
                    \* listener was registered on, 0 if the slot is null
    listeners,      \* listeners registered per socket and event
    fetch,          \* response of a getMessages call on its way to the store
    userLastMessageTime, \* Sidebar state: user -> time of its last message, 0 if none
    sidebarSocket,  \* the socket Sidebar's handleNewMessage is registered on, 0 if none
    friends,        \* useAuthStore.friends: the friends of Me as last fetched
    filteredUsers,  \* Sidebar: the conversation list as last rendered
    rebuild,        \* Sidebar.fetchAllUserMessages in flight: the timestamps it collects
    earlierFetch,   \* response of a getMessages call that a later call has overtaken
    friendRequests, \* the FriendRequest collection: _id -> sender, receiver, status
    userFriends,    \* User.friends: user -> the users in its friends array
    social          \* friend-request and unfriend requests in flight

serverVars == <<db, members, userSocketMap, rooms>>
socialVars == <<friendRequests, userFriends, social>>
sidebarVars == <<userLastMessageTime, sidebarSocket, friends, filteredUsers, rebuild>>
clientVars == <<messages, selectedUser, socket, currentSocket, handlers, listeners, fetch,
                userLastMessageTime, sidebarSocket, friends, filteredUsers, rebuild, earlierFetch>>
vars == <<db, members, userSocketMap, rooms, reqs, inbox,
          messages, selectedUser, socket, currentSocket, handlers, listeners, fetch,
          userLastMessageTime, sidebarSocket, friends, filteredUsers, rebuild, earlierFetch,
          friendRequests, userFriends, social>>

Idle == [op |-> "idle"]
NoDeliveries == [u \in Users |-> 0]

\* a request whose handler has returned: the response on its way to the caller,
\* with the number of emits the handler addressed to each user
Responded(op, status, id, actor, deliv, data, call) ==
    [op |-> op, phase |-> "responded", status |-> status, id |-> id,
     actor |-> actor, deliv |-> deliv, data |-> data, call |-> call]

\* what the caller keeps across the request: nothing for a plain HTTP caller,
\* the list read by the store's sendMessage before its await
NoCall == [store |-> FALSE, snapshot |-> <<>>]
StoreCall(snapshot) == [store |-> TRUE, snapshot |-> snapshot]

FreeSlot(s) == reqs[s] = Idle /\ \A t \in Slots : t < s => reqs[t] # Idle

\* ------------------------------------------------------------------ message store
\* variant: the receiver named in the URL is kept on a group message
messageDataKeepsReceiver(senderId, receiverId, groupId, text, image) ==
    [_id |-> 0,
     senderId |-> senderId,
     receiverId |-> receiverId,
     groupId |-> groupId,
     text |-> IF text # <<>> THEN encryptCaesar(text) ELSE NullText,
     image |-> image,
     sentiment |-> "neutral",
     toxic |-> FALSE,
     replyTo |-> Null,
     createdAt |-> 0,
     edited |-> FALSE,
     isDeleted |-> FALSE,
     pinned |-> FALSE]

\* sendMessage: the row built from the request (messageData)
messageData(senderId, receiverId, groupId, text, image) ==
    [_id |-> 0,
     senderId |-> senderId,
     receiverId |-> IF groupId # Null THEN Null ELSE receiverId,
     groupId |-> groupId,
     text |-> IF text # <<>> THEN encryptCaesar(text) ELSE NullText,
     image |-> image,
     sentiment |-> "neutral",
     toxic |-> FALSE,
     replyTo |-> Null,
     createdAt |-> 0,
     edited |-> FALSE,
     isDeleted |-> FALSE,
     pinned |-> FALSE]

\* message.model.js: a row without a receiver and without a group is refused
SchemaValid(row) == row.receiverId # Null \/ row.groupId # Null

\* the permission check shared by editMessage, deleteMessage and pinMessage
isPrivateMessage(message) == message.receiverId # Null /\ message.groupId = Null
isSender(message, userId) == message.senderId = userId
isReceiver(message, userId) == isPrivateMessage(message) /\ message.receiverId = userId
isGroupMember(message, userId) ==
    message.groupId # Null /\ userId \in members[message.groupId]

\* variant: only the author may change a message
PermittedSenderOnly(message, userId) == isSender(message, userId)

Permitted(message, userId) ==
    isSender(message, userId) \/ isReceiver(message, userId) \/ isGroupMember(message, userId)

\* variant: an edit also unpins the message
EditAssignUnpins(message, newText) ==
    [message EXCEPT
        !.text = IF newText # <<>> THEN encryptCaesar(newText) ELSE NullText,
        !.edited = TRUE,
        !.pinned = FALSE]

\* the assignments each handler makes to the row it loaded
EditAssign(message, newText) ==
    [message EXCEPT
        !.text = IF newText # <<>> THEN encryptCaesar(newText) ELSE NullText,
        !.edited = TRUE]

\* variant: the tombstone also drops the image
DeleteAssignDropsImage(message) ==
    [message EXCEPT !.isDeleted = TRUE, !.text = NullText, !.image = Null]

\* variant: the tombstone keeps the text
DeleteAssignKeepsText(message) == [message EXCEPT !.isDeleted = TRUE]

DeleteAssign(message) == [message EXCEPT !.isDeleted = TRUE, !.text = NullText]

\* variant: the flag is set, never cleared
PinAssignSets(message) == [message EXCEPT !.pinned = TRUE]

PinAssign(message) == [message EXCEPT !.pinned = ~message.pinned]

Fields == {"_id", "senderId", "receiverId", "groupId", "text", "image",
           "sentiment", "toxic", "replyTo", "createdAt", "edited", "isDeleted", "pinned"}

\* document.save(): only the paths whose value was changed are written
SaveRow(row, loaded, doc) ==
    [f \in Fields |-> IF doc[f] # loaded[f] THEN doc[f] ELSE row[f]]

\* message.toObject() followed by the decryption for the socket
messageForSocket(doc) ==
    [doc EXCEPT !.text = IF doc.text # NullText THEN decryptCaesar(doc.text) ELSE NullText]

\* ------------------------------------------------------------------ notification router
\* getReceiverSocketId(id): the session of a user, if connected
Connected(u) == u # Null /\ userSocketMap[u] # 0

\* io.to(groupId).emit: every socket joined to the room gets the event once
GroupDeliveries(groupId) == [u \in Users |-> IF u \in rooms[groupId] THEN 1 ELSE 0]

\* variant: io.emit, the event goes to every connected socket
DirectDeliveriesBroadcast(receiverId, second) ==
    [u \in Users |-> IF Connected(u) THEN 1 ELSE 0]

\* variant: the receiver's event is kept for a receiver who is not connected
DirectDeliveriesQueued(receiverId, second) ==
    [u \in Users |->
        (IF u = receiverId THEN 1 ELSE 0)
      + (IF u = second /\ Connected(second) THEN 1 ELSE 0)]

\* two io.to(socketId).emit calls: the receiver's socket, then the socket of
\* `second` (the sender in sendMessage, req.user in edit/delete/pin)
DirectDeliveries(receiverId, second) ==
    [u \in Users |->
        (IF u = receiverId /\ Connected(receiverId) THEN 1 ELSE 0)
      + (IF u = second /\ Connected(second) THEN 1 ELSE 0)]

\* variant: only the receiver's socket is addressed
SendDeliveriesReceiverOnly(doc) ==
    IF doc.groupId # Null THEN GroupDeliveries(doc.groupId)
    ELSE DirectDeliveries(doc.receiverId, Null)

SendDeliveries(doc) ==
    IF doc.groupId # Null THEN GroupDeliveries(doc.groupId)
    ELSE DirectDeliveries(doc.receiverId, doc.senderId)

MutationDeliveries(doc, userId) ==
    IF doc.groupId # Null THEN GroupDeliveries(doc.groupId)
    ELSE DirectDeliveries(doc.receiverId, userId)

EventName(op) ==
    CASE op = "send" -> "newMessage"
      [] op = "edit" -> "messageEdited"
      [] op = "delete" -> "messageDeleted"
      [] op = "pin" -> "messagePinned"

Copies(n, e) == [i \in 1..n |-> e]

\* the event as it reaches Me's socket, once per emit addressed to it
Deliver(op, payload, deliv) ==
    /\ Len(inbox) + deliv[Me] <= MaxInbox
    /\ inbox' = inbox \o Copies(deliv[Me], [type |-> EventName(op), msg |-> payload])

\* ------------------------------------------------------------------ server handlers
\* what analyzeTextToxicityWithEnhancedSentiment returns or that it throws:
\* lib/toxicity.js is a collaborator, its verdict an input
Sentiments == {"neutral", "negative"}
NeutralVerdict == [ok |-> TRUE, sentiment |-> "neutral", toxic |-> FALSE]
ToxicVerdict == [ok |-> TRUE, sentiment |-> "negative", toxic |-> TRUE]
ClassificationFails == [ok |-> FALSE, sentiment |-> "neutral", toxic |-> FALSE]

\* sendMessage: the text is analysed if there is one; when the analysis throws
\* the fallback takes `sentiment || "neutral"` from the request body
analysisResult(text, sentiment, verdict) ==
    IF trim(text) # <<>>
    THEN IF verdict.ok
         THEN [sentiment |-> verdict.sentiment, toxic |-> verdict.toxic]
         ELSE [sentiment |-> IF sentiment # Null THEN sentiment ELSE "neutral",
               toxic |-> FALSE]
    ELSE [sentiment |-> "neutral", toxic |-> FALSE]

\* sendMessage up to `await newMessage.save()`, for the request held in slot s,
\* posted with body field `sentiment` while the classifier answers `verdict`
SendMessageWith(s, senderId, receiverId, groupId, text, image, sentiment, verdict, call) ==
    /\ LET analysis == analysisResult(text, sentiment, verdict)
           row == [messageData(senderId, receiverId, groupId, text, image) EXCEPT
                        !.sentiment = analysis.sentiment, !.toxic = analysis.toxic] IN
       IF trim(text) = <<>> /\ image = Null
       THEN /\ reqs' = [reqs EXCEPT ![s] =
                    Responded("send", 400, 0, senderId, NoDeliveries, Null, call)]
            /\ UNCHANGED db
       ELSE IF ~SchemaValid(row)
       THEN /\ reqs' = [reqs EXCEPT ![s] =
                    Responded("send", 500, 0, senderId, NoDeliveries, Null, call)]
            /\ UNCHANGED db
       ELSE /\ Len(db) < MaxMessages
            /\ db' = Append(db, [row EXCEPT !._id = Len(db) + 1, !.createdAt = Len(db) + 1])
            /\ reqs' = [reqs EXCEPT ![s] =
                    [op |-> "send", phase |-> "saved", actor |-> senderId,
                     doc |-> [row EXCEPT !._id = Len(db) + 1, !.createdAt = Len(db) + 1], call |-> call]]
    /\ UNCHANGED <<members, userSocketMap, rooms, inbox>>
    /\ UNCHANGED <<clientVars, socialVars>>

\* the same for a request without a sentiment field whose text the classifier
\* finds neutral
SendMessage(s, senderId, receiverId, groupId, text, image, call) ==
    SendMessageWith(s, senderId, receiverId, groupId, text, image, Null, NeutralVerdict, call)

\* a send with a sentiment field, posted by another user's client
ClassifiedSend(senderId, receiverId, groupId, text, image, sentiment, verdict) ==
    \E s \in Slots :
        /\ FreeSlot(s)
        /\ SendMessageWith(s, senderId, receiverId, groupId, text, image, sentiment, verdict, NoCall)

\* a send posted by another user's client
PeerSend(senderId, receiverId, groupId, text, image) ==
    \E s \in Slots :
        /\ FreeSlot(s)
        /\ SendMessage(s, senderId, receiverId, groupId, text, image, NoCall)

\* a send posted by Me's store reaches the server
StoreSendArrives(s) ==
    /\ reqs[s].op = "send"
    /\ reqs[s].phase = "sent"
    /\ SendMessage(s, Me, reqs[s].receiverId, reqs[s].groupId, reqs[s].text,
                   reqs[s].image, reqs[s].call)

\* sendMessage from the emission to the response
SendEmit(s) ==
    /\ reqs[s].op = "send"
    /\ reqs[s].phase = "saved"
    /\ LET doc == reqs[s].doc
           deliv == SendDeliveries(doc) IN
        /\ Deliver("send", messageForSocket(doc), deliv)
        /\ reqs' = [reqs EXCEPT ![s] =
                Responded("send", 201, doc._id, reqs[s].actor, deliv,
                          messageForSocket(doc), reqs[s].call)]
    /\ UNCHANGED <<db, members, userSocketMap, rooms>>
    /\ UNCHANGED <<clientVars, socialVars>>

\* variant: the row is written before the permission check
BeginSavesFirst(op, userId, messageId, doc) ==
    \E s \in Slots :
        /\ FreeSlot(s)
        /\ reqs' = [reqs EXCEPT ![s] =
                IF messageId > Len(db)
                THEN Responded(op, 404, messageId, userId, NoDeliveries, Null, NoCall)
                ELSE IF ~Permitted(db[messageId], userId)
                THEN Responded(op, 403, messageId, userId, NoDeliveries, Null, NoCall)
                ELSE [op |-> op, phase |-> "loaded", actor |-> userId,
                      loaded |-> db[messageId], doc |-> doc]]
        /\ db' = IF messageId <= Len(db) THEN [db EXCEPT ![messageId] = doc] ELSE db
        /\ UNCHANGED <<members, userSocketMap, rooms, inbox>>
        /\ UNCHANGED <<clientVars, socialVars>>

\* variant: the event leaves as soon as the permission check has passed,
\* before the save
BeginEmits(op, userId, messageId, doc) ==
    \E s \in Slots :
        /\ FreeSlot(s)
        /\ reqs' = [reqs EXCEPT ![s] =
                IF messageId > Len(db)
                THEN Responded(op, 404, messageId, userId, NoDeliveries, Null, NoCall)
                ELSE IF ~Permitted(db[messageId], userId)
                THEN Responded(op, 403, messageId, userId, NoDeliveries, Null, NoCall)
                ELSE [op |-> op, phase |-> "loaded", actor |-> userId,
                      loaded |-> db[messageId], doc |-> doc]]
        /\ IF messageId <= Len(db) /\ Permitted(db[messageId], userId)
           THEN Deliver(op, doc, MutationDeliveries(doc, userId))
           ELSE UNCHANGED inbox
        /\ UNCHANGED <<db, members, userSocketMap, rooms>>
        /\ UNCHANGED <<clientVars, socialVars>>

\* findById and the permission check of editMessage, deleteMessage, pinMessage;
\* `doc` is the loaded row after the handler's assignments. The row and the
\* group's members are read in two awaits; nothing the specifications below
\* run between them changes what the second one reads
Begin(op, userId, messageId, doc) ==
    \E s \in Slots :
        /\ FreeSlot(s)
        /\ reqs' = [reqs EXCEPT ![s] =
                IF messageId > Len(db)
                THEN Responded(op, 404, messageId, userId, NoDeliveries, Null, NoCall)
                ELSE IF ~Permitted(db[messageId], userId)
                THEN Responded(op, 403, messageId, userId, NoDeliveries, Null, NoCall)
                ELSE [op |-> op, phase |-> "loaded", actor |-> userId,
                      loaded |-> db[messageId], doc |-> doc]]
        /\ UNCHANGED <<db, members, userSocketMap, rooms, inbox>>
        /\ UNCHANGED <<clientVars, socialVars>>

\* `await message.save()`
Save(op, s) ==
    /\ reqs[s].op = op
    /\ reqs[s].phase = "loaded"
    /\ LET id == reqs[s].doc._id IN
        db' = [db EXCEPT ![id] = SaveRow(db[id], reqs[s].loaded, reqs[s].doc)]
    /\ reqs' = [reqs EXCEPT ![s] = [op |-> op, phase |-> "saved",
                                    actor |-> reqs[s].actor, doc |-> reqs[s].doc]]
    /\ UNCHANGED <<members, userSocketMap, rooms, inbox>>
    /\ UNCHANGED <<clientVars, socialVars>>

\* the emission and the response that follow the save
Emit(op, s, payload, data) ==
    /\ reqs[s].op = op
    /\ reqs[s].phase = "saved"
    /\ LET doc == reqs[s].doc
           deliv == MutationDeliveries(doc, reqs[s].actor) IN
        /\ Deliver(op, payload, deliv)
        /\ reqs' = [reqs EXCEPT ![s] =
                Responded(op, 200, doc._id, reqs[s].actor, deliv, data, NoCall)]
    /\ UNCHANGED <<db, members, userSocketMap, rooms>>
    /\ UNCHANGED <<clientVars, socialVars>>

\* a plain HTTP caller takes the response
Respond(s) ==
    /\ reqs[s].op # "idle"
    /\ reqs[s].phase = "responded"
    /\ ~reqs[s].call.store
    /\ reqs' = [reqs EXCEPT ![s] = Idle]
    /\ UNCHANGED <<db, members, userSocketMap, rooms, inbox>>
    /\ UNCHANGED <<clientVars, socialVars>>

EditBegin(userId, messageId, newText) ==
    Begin("edit", userId, messageId,
          IF messageId <= Len(db) THEN EditAssign(db[messageId], newText) ELSE Idle)
EditSave(s) == Save("edit", s)
EditEmit(s) == Emit("edit", s, messageForSocket(reqs[s].doc), messageForSocket(reqs[s].doc))

DeleteBegin(userId, messageId) ==
    Begin("delete", userId, messageId,
          IF messageId <= Len(db) THEN DeleteAssign(db[messageId]) ELSE Idle)
DeleteSave(s) == Save("delete", s)
\* deleteMessage emits message.toObject() as it is and answers with a notice
DeleteEmit(s) == Emit("delete", s, reqs[s].doc, Null)

PinBegin(userId, messageId) ==
    Begin("pin", userId, messageId,
          IF messageId <= Len(db) THEN PinAssign(db[messageId]) ELSE Idle)
PinSave(s) == Save("pin", s)
PinEmit(s) == Emit("pin", s, messageForSocket(reqs[s].doc), messageForSocket(reqs[s].doc))

\* ------------------------------------------------------------------ collaborators
\* group.controller.js addMembersToGroup / removeMemberFromGroup
AddMembersToGroup(g, u) ==
    /\ u \notin members[g]
    /\ members' = [members EXCEPT ![g] = @ \cup {u}]
    /\ UNCHANGED <<db, userSocketMap, rooms, reqs, inbox>>
    /\ UNCHANGED <<clientVars, socialVars>>

RemoveMemberFromGroup(g, u) ==
    /\ u \in members[g]
    /\ members' = [members EXCEPT ![g] = @ \ {u}]
    /\ UNCHANGED <<db, userSocketMap, rooms, reqs, inbox>>
    /\ UNCHANGED <<clientVars, socialVars>>

\* lib/socket.js: the session of another user connects, joins or leaves a
\* group room, disconnects
Connect(u) ==
    /\ u # Me
    /\ userSocketMap[u] = 0
    /\ userSocketMap' = [userSocketMap EXCEPT ![u] = 1]
    /\ UNCHANGED <<db, members, rooms, reqs, inbox>>
    /\ UNCHANGED <<clientVars, socialVars>>

Disconnect(u) ==
    /\ u # Me
    /\ userSocketMap[u] # 0
    /\ userSocketMap' = [userSocketMap EXCEPT ![u] = 0]
    /\ rooms' = [g \in Groups |-> rooms[g] \ {u}]
    /\ UNCHANGED <<db, members, reqs, inbox>>
    /\ UNCHANGED <<clientVars, socialVars>>

JoinRoom(u, g) ==
    /\ userSocketMap[u] # 0
    /\ u \notin rooms[g]
    /\ rooms' = [rooms EXCEPT ![g] = @ \cup {u}]
    /\ UNCHANGED <<db, members, userSocketMap, reqs, inbox>>
    /\ UNCHANGED <<clientVars, socialVars>>

LeaveRoom(u, g) ==
    /\ u \in rooms[g]
    /\ rooms' = [rooms EXCEPT ![g] = @ \ {u}]
    /\ UNCHANGED <<db, members, userSocketMap, reqs, inbox>>
    /\ UNCHANGED <<clientVars, socialVars>>

\* ------------------------------------------------------------------ client store
\* selectedUser as set by the sidebar: a user, a group (openGroupChat) or null
NoSel == [_id |-> Null, groupId |-> Null]
SelUser(u) == [_id |-> u, groupId |-> Null]
SelGroup(g) == [_id |-> g, groupId |-> g]
Selections == {NoSel} \cup {SelUser(u) : u \in Users \ {Me}} \cup {SelGroup(g) : g \in Groups}

HasId(msgs, id) == \E i \in 1..Len(msgs) : msgs[i]._id = id

\* messageHandler: the relevance test of a newMessage event; a group message
\* has no receiverId, so for it the direct test is false (or throws)
isRelevantGroup(sel, m) == sel.groupId # Null /\ m.groupId = sel.groupId
\* variant: any direct message of Me counts, whoever the peer is
isRelevantDMAnyPeer(sel, m) ==
    /\ sel.groupId = Null
    /\ m.receiverId # Null
    /\ (m.receiverId = Me \/ m.senderId = Me)

isRelevantDM(sel, m) ==
    /\ sel.groupId = Null
    /\ m.receiverId # Null
    /\ \/ m.senderId = sel._id /\ m.receiverId = Me
       \/ m.senderId = Me /\ m.receiverId = sel._id

\* variant: no duplicate check before the append
messageHandlerNoCheck(msgs, sel, m) ==
    IF sel = NoSel THEN msgs
    ELSE IF isRelevantGroup(sel, m) \/ isRelevantDM(sel, m)
    THEN Append(msgs, m)
    ELSE msgs

messageHandler(msgs, sel, m) ==
    IF sel = NoSel THEN msgs
    ELSE IF isRelevantGroup(sel, m) \/ isRelevantDM(sel, m)
    THEN IF HasId(msgs, m._id) THEN msgs ELSE Append(msgs, m)
    ELSE msgs

\* variant: the entry's own pinned flag is flipped instead of taking the
\* event's value
ReplaceByIdFlipsPin(msgs, m) ==
    [i \in 1..Len(msgs) |->
        IF msgs[i]._id = m._id THEN [m EXCEPT !.pinned = ~msgs[i].pinned] ELSE msgs[i]]

\* variant: a message that is not listed is appended
ReplaceByIdUpsert(msgs, m) ==
    IF \E i \in 1..Len(msgs) : msgs[i]._id = m._id
    THEN [i \in 1..Len(msgs) |-> IF msgs[i]._id = m._id THEN m ELSE msgs[i]]
    ELSE Append(msgs, m)

\* messageDeletedHandler, messageEditedHandler, messagePinnedHandler
ReplaceById(msgs, m) ==
    [i \in 1..Len(msgs) |-> IF msgs[i]._id = m._id THEN m ELSE msgs[i]]

ApplyEvent(msgs, sel, e) ==
    IF e.type = "newMessage" THEN messageHandler(msgs, sel, e.msg)
    ELSE ReplaceById(msgs, e.msg)

RECURSIVE ApplyTimes(_, _, _, _)
ApplyTimes(n, msgs, sel, e) ==
    IF n = 0 THEN msgs ELSE ApplyTimes(n - 1, ApplyEvent(msgs, sel, e), sel, e)

\* Sidebar.handleNewMessage: the time of the message is stored for the peer,
\* the sender of a received message or the receiver of a sent one
handleNewMessage(times, m) ==
    IF m.createdAt = 0 THEN times
    ELSE IF m.senderId # Me THEN [times EXCEPT ![m.senderId] = m.createdAt]
    ELSE IF m.receiverId # Null THEN [times EXCEPT ![m.receiverId] = m.createdAt]
    ELSE times

\* variant: the Sidebar takes a created event only if it belongs to the
\* conversation that is shown
ReceiveEventActiveOnly ==
    /\ inbox # <<>>
    /\ LET e == Head(inbox)
           n == listeners[userSocketMap[Me]][e.type] IN
        /\ messages' = ApplyTimes(n, messages, selectedUser, e)
        /\ userLastMessageTime' =
                IF /\ e.type = "newMessage"
                   /\ sidebarSocket = userSocketMap[Me]
                   /\ (isRelevantGroup(selectedUser, e.msg) \/ isRelevantDM(selectedUser, e.msg))
                THEN handleNewMessage(userLastMessageTime, e.msg)
                ELSE userLastMessageTime
    /\ inbox' = Tail(inbox)
    /\ UNCHANGED <<db, members, userSocketMap, rooms, reqs>>
    /\ UNCHANGED <<selectedUser, socket, currentSocket, handlers, listeners, fetch>>
    /\ UNCHANGED <<sidebarSocket, friends, filteredUsers, rebuild, earlierFetch, socialVars>>

\* an event arrives on Me's socket and every listener registered for it runs:
\* those of the store and, for newMessage, the one of the Sidebar
ReceiveEvent ==
    /\ inbox # <<>>
    /\ LET e == Head(inbox)
           n == listeners[userSocketMap[Me]][e.type] IN
        /\ messages' = ApplyTimes(n, messages, selectedUser, e)
        /\ userLastMessageTime' =
                IF e.type = "newMessage" /\ sidebarSocket = userSocketMap[Me]
                THEN handleNewMessage(userLastMessageTime, e.msg)
                ELSE userLastMessageTime
    /\ inbox' = Tail(inbox)
    /\ UNCHANGED <<db, members, userSocketMap, rooms, reqs>>
    /\ UNCHANGED <<selectedUser, socket, currentSocket, handlers, listeners, fetch>>
    /\ UNCHANGED <<sidebarSocket, friends, filteredUsers, rebuild, earlierFetch, socialVars>>

\* Sidebar's effect on [socket]: the cleanup removes the listener from the
\* socket it was registered on, the body registers it on the current one
SidebarEffect ==
    /\ sidebarSocket # socket
    /\ sidebarSocket' = socket
    /\ UNCHANGED <<db, members, userSocketMap, rooms, reqs, inbox>>
    /\ UNCHANGED <<messages, selectedUser, socket, currentSocket, handlers, listeners, fetch>>
    /\ UNCHANGED <<userLastMessageTime, friends, filteredUsers, rebuild, earlierFetch, socialVars>>

\* sendMessage up to its await: the list is read, the request posted
StoreSendMessage(text, image) ==
    /\ selectedUser # NoSel
    /\ \E s \in Slots :
        /\ FreeSlot(s)
        /\ reqs' = [reqs EXCEPT ![s] =
                [op |-> "send", phase |-> "sent", actor |-> Me,
                 receiverId |-> IF selectedUser.groupId # Null THEN Null ELSE selectedUser._id,
                 groupId |-> selectedUser.groupId,
                 text |-> text, image |-> image,
                 call |-> StoreCall(messages)]]
    /\ UNCHANGED <<db, members, userSocketMap, rooms, inbox>>
    /\ UNCHANGED <<clientVars, socialVars>>

\* sendMessage after its await: set({ messages: [...messages, res.data] })
SendCompletion(snapshot, data) == Append(snapshot, data)

StoreSendDone(s) ==
    /\ reqs[s].op = "send"
    /\ reqs[s].phase = "responded"
    /\ reqs[s].call.store
    /\ messages' = IF reqs[s].status = 201
                   THEN SendCompletion(reqs[s].call.snapshot, reqs[s].data)
                   ELSE messages
    /\ reqs' = [reqs EXCEPT ![s] = Idle]
    /\ UNCHANGED <<db, members, userSocketMap, rooms, inbox>>
    /\ UNCHANGED <<selectedUser, socket, currentSocket, handlers, listeners, fetch>>
    /\ UNCHANGED <<sidebarVars, earlierFetch, socialVars>>

\* getMessages on the server: the conversation's rows in creation order,
\* decrypted
InConversation(row, myId, userToChatId, groupId) ==
    IF groupId # Null THEN row.groupId = groupId
    ELSE \/ row.senderId = myId /\ row.receiverId = userToChatId
         \/ row.senderId = userToChatId /\ row.receiverId = myId

RECURSIVE History(_, _, _, _)
History(rows, myId, userToChatId, groupId) ==
    IF rows = <<>> THEN <<>>
    ELSE LET rest == History(Tail(rows), myId, userToChatId, groupId) IN
         IF InConversation(Head(rows), myId, userToChatId, groupId)
         THEN <<messageForSocket(Head(rows))>> \o rest
         ELSE rest

NoFetch == [pending |-> FALSE, data |-> <<>>]

\* the store's getMessages: the request and the server's answer
GetMessages(userId, groupId) ==
    /\ ~fetch.pending
    /\ fetch' = [pending |-> TRUE, data |-> History(db, Me, userId, groupId)]
    /\ UNCHANGED <<db, members, userSocketMap, rooms, reqs, inbox>>
    /\ UNCHANGED <<messages, selectedUser, socket, currentSocket, handlers, listeners>>
    /\ UNCHANGED <<sidebarVars, earlierFetch, socialVars>>

\* set({ messages: res.data })
GetMessagesDone ==
    /\ fetch.pending
    /\ messages' = fetch.data
    /\ fetch' = NoFetch
    /\ UNCHANGED <<db, members, userSocketMap, rooms, reqs, inbox>>
    /\ UNCHANGED <<selectedUser, socket, currentSocket, handlers, listeners>>
    /\ UNCHANGED <<sidebarVars, earlierFetch, socialVars>>

setSelectedUser(sel) ==
    /\ selectedUser # sel
    /\ selectedUser' = sel
    /\ UNCHANGED <<db, members, userSocketMap, rooms, reqs, inbox>>
    /\ UNCHANGED <<messages, socket, currentSocket, handlers, listeners, fetch>>
    /\ UNCHANGED <<sidebarVars, earlierFetch, socialVars>>

\* ------------------------------------------------------------------ friends
\* a request that unfriendUser has deleted; findById finds nothing
NoRequest == [sender |-> Null, receiver |-> Null, status |-> "none"]

FreeSocial(s) == social[s] = Idle /\ \A t \in Slots : t < s => social[t] # Idle

\* FriendRequest.findOne({ sender, receiver, status: "pending" })
findOnePending(sender, receiver) ==
    \E i \in 1..Len(friendRequests) :
        /\ friendRequests[i].sender = sender
        /\ friendRequests[i].receiver = receiver
        /\ friendRequests[i].status = "pending"

\* the handlers below touch neither the messages nor the client
SocialFrame ==
    /\ UNCHANGED <<db, members, userSocketMap, rooms, reqs, inbox>>
    /\ UNCHANGED clientVars

\* sendFriendRequest up to `User.findById(receiverId)`: a request to oneself
\* is answered 400 and starts nothing
SendRequestBegin(senderId, receiverId) ==
    \E s \in Slots :
        /\ FreeSocial(s)
        /\ senderId # receiverId
        /\ Len(friendRequests) + Cardinality({t \in Slots : social[t].op = "send"}) < MaxRequests
        /\ social' = [social EXCEPT ![s] =
                [op |-> "send", phase |-> "existing", sender |-> senderId, receiver |-> receiverId]]
        /\ UNCHANGED <<friendRequests, userFriends>>
        /\ SocialFrame

\* the lookup of a pending request in the same direction; 400 if there is one
SendRequestExisting(s) ==
    /\ social[s].op = "send"
    /\ social[s].phase = "existing"
    /\ social' = [social EXCEPT ![s] =
            IF findOnePending(social[s].sender, social[s].receiver)
            THEN Idle ELSE [social[s] EXCEPT !.phase = "reverse"]]
    /\ UNCHANGED <<friendRequests, userFriends>>
    /\ SocialFrame

\* the lookup of a pending request in the other direction; 400 if there is one
SendRequestReverse(s) ==
    /\ social[s].op = "send"
    /\ social[s].phase = "reverse"
    /\ social' = [social EXCEPT ![s] =
            IF findOnePending(social[s].receiver, social[s].sender)
            THEN Idle ELSE [social[s] EXCEPT !.phase = "create"]]
    /\ UNCHANGED <<friendRequests, userFriends>>
    /\ SocialFrame

\* FriendRequest.create({ sender, receiver }): the status defaults to pending
SendRequestCreate(s) ==
    /\ social[s].op = "send"
    /\ social[s].phase = "create"
    /\ friendRequests' = Append(friendRequests,
            [sender |-> social[s].sender, receiver |-> social[s].receiver, status |-> "pending"])
    /\ social' = [social EXCEPT ![s] = Idle]
    /\ UNCHANGED userFriends
    /\ SocialFrame

\* findById of acceptFriendRequest and rejectFriendRequest: a request that
\* does not exist or whose receiver is another user is answered 404
LoadRequest(op, userId, requestId) ==
    \E s \in Slots :
        /\ FreeSocial(s)
        /\ requestId \in 1..Len(friendRequests)
        /\ friendRequests[requestId] # NoRequest
        /\ friendRequests[requestId].receiver = userId
        /\ social' = [social EXCEPT ![s] =
                [op |-> op, phase |-> "loaded", id |-> requestId,
                 loaded |-> friendRequests[requestId]]]
        /\ UNCHANGED <<friendRequests, userFriends>>
        /\ SocialFrame

\* request.status = status; await request.save(): the status is written if
\* it differs from the one loaded; the save of a deleted request throws
SaveStatus(s, status, next) ==
    /\ social[s].phase = "loaded"
    /\ IF friendRequests[social[s].id] = NoRequest
       THEN /\ social' = [social EXCEPT ![s] = Idle]
            /\ UNCHANGED friendRequests
       ELSE /\ friendRequests' = [friendRequests EXCEPT ![social[s].id].status =
                    IF social[s].loaded.status # status THEN status ELSE @]
            /\ social' = [social EXCEPT ![s] = next]
    /\ UNCHANGED userFriends
    /\ SocialFrame

AcceptBegin(userId, requestId) == LoadRequest("accept", userId, requestId)

AcceptSave(s) ==
    /\ social[s].op = "accept"
    /\ SaveStatus(s, "accepted",
            [op |-> "accept", phase |-> "saved", id |-> social[s].id,
             loaded |-> social[s].loaded, todo |-> {"sender", "receiver"}])

\* one of the two $addToSet updates of Promise.all
AcceptAddFriend(s, side) ==
    /\ social[s].op = "accept"
    /\ social[s].phase = "saved"
    /\ side \in social[s].todo
    /\ LET senderId == social[s].loaded.sender
           receiverId == social[s].loaded.receiver IN
        userFriends' = IF side = "sender"
                       THEN [userFriends EXCEPT ![senderId] = @ \cup {receiverId}]
                       ELSE [userFriends EXCEPT ![receiverId] = @ \cup {senderId}]
    /\ social' = [social EXCEPT ![s] =
            IF social[s].todo = {side} THEN Idle ELSE [social[s] EXCEPT !.todo = @ \ {side}]]
    /\ UNCHANGED friendRequests
    /\ SocialFrame

RejectBegin(userId, requestId) == LoadRequest("reject", userId, requestId)

RejectSave(s) ==
    /\ social[s].op = "reject"
    /\ SaveStatus(s, "rejected", Idle)

\* unfriendUser: unfriending oneself is answered 400 and starts nothing
UnfriendBegin(currentUserId, friendId) ==
    \E s \in Slots :
        /\ FreeSocial(s)
        /\ currentUserId # friendId
        /\ social' = [social EXCEPT ![s] =
                [op |-> "unfriend", phase |-> "pulling", user |-> currentUserId,
                 friend |-> friendId, todo |-> {"current", "friend"}]]
        /\ UNCHANGED <<friendRequests, userFriends>>
        /\ SocialFrame

\* one of the two $pull updates of Promise.all
UnfriendPull(s, side) ==
    /\ social[s].op = "unfriend"
    /\ social[s].phase = "pulling"
    /\ side \in social[s].todo
    /\ userFriends' = IF side = "current"
                      THEN [userFriends EXCEPT ![social[s].user] = @ \ {social[s].friend}]
                      ELSE [userFriends EXCEPT ![social[s].friend] = @ \ {social[s].user}]
    /\ social' = [social EXCEPT ![s] =
            IF social[s].todo = {side}
            THEN [op |-> "unfriend", phase |-> "deleting", user |-> social[s].user,
                  friend |-> social[s].friend]
            ELSE [social[s] EXCEPT !.todo = @ \ {side}]]
    /\ UNCHANGED friendRequests
    /\ SocialFrame

\* FriendRequest.deleteMany of the accepted requests between the two users
UnfriendDeleteRequests(s) ==
    /\ social[s].op = "unfriend"
    /\ social[s].phase = "deleting"
    /\ friendRequests' = [i \in 1..Len(friendRequests) |->
            IF /\ friendRequests[i].status = "accepted"
               /\ {friendRequests[i].sender, friendRequests[i].receiver}
                    = {social[s].user, social[s].friend}
            THEN NoRequest ELSE friendRequests[i]]
    /\ social' = [social EXCEPT ![s] = Idle]
    /\ UNCHANGED userFriends
    /\ SocialFrame

\* ------------------------------------------------------------------ sidebar list
\* getMessages called again while the response of the call before is on its
\* way: nothing cancels the earlier request
GetMessagesOvertaking(userId, groupId) ==
    /\ fetch.pending
    /\ ~earlierFetch.pending
    /\ earlierFetch' = fetch
    /\ fetch' = [pending |-> TRUE, data |-> History(db, Me, userId, groupId)]
    /\ UNCHANGED <<db, members, userSocketMap, rooms, reqs, inbox>>
    /\ UNCHANGED <<messages, selectedUser, socket, currentSocket, handlers, listeners>>
    /\ UNCHANGED <<sidebarVars, socialVars>>

\* set({ messages: res.data }) of the overtaken call
EarlierFetchDone ==
    /\ earlierFetch.pending
    /\ messages' = earlierFetch.data
    /\ earlierFetch' = NoFetch
    /\ UNCHANGED <<db, members, userSocketMap, rooms, reqs, inbox>>
    /\ UNCHANGED <<selectedUser, socket, currentSocket, handlers, listeners, fetch>>
    /\ UNCHANGED <<sidebarVars, socialVars>>

\* the friends a list may hold: the other users and one with whom no message
\* was ever exchanged; a fullName is a number, ordered as localeCompare orders
FriendIds == (Users \ {Me}) \cup {"W"}
Names == 1..MaxName

\* no rebuild in flight. `waiting` are the friends whose history is not yet
\* answered, `timestamps` the local object of fetchAllUserMessages (0: no
\* key), `started` the index as it was when the rebuild began
NoRebuild == [pending |-> FALSE, waiting |-> {}, timestamps |-> [u \in Users |-> 0],
              started |-> [u \in Users |-> 0]]

\* userLastMessageTime[id] || 0
TimeOf(times, id) == IF id \in DOMAIN times THEN times[id] ELSE 0

localeCompare(a, b) == IF a < b THEN 0 - 1 ELSE IF a > b THEN 1 ELSE 0

\* variant: the names are never compared
compareTimesOnly(times, a, b) == TimeOf(times, b._id) - TimeOf(times, a._id)

\* the comparator given to sort in filteredUsers
compare(times, a, b) ==
    LET timeA == TimeOf(times, a._id)
        timeB == TimeOf(times, b._id) IN
    IF timeA # 0 \/ timeB # 0 THEN timeB - timeA
    ELSE localeCompare(a.fullName, b.fullName)

\* Array.prototype.sort: stable; each element goes behind the last one that
\* the comparator does not put after it
RECURSIVE Insert(_, _, _)
Insert(times, sorted, x) ==
    IF sorted = <<>> THEN <<x>>
    ELSE IF compare(times, sorted[Len(sorted)], x) <= 0 THEN Append(sorted, x)
    ELSE Append(Insert(times, SubSeq(sorted, 1, Len(sorted) - 1), x), sorted[Len(sorted)])

RECURSIVE Sort(_, _)
Sort(times, list) ==
    IF list = <<>> THEN <<>>
    ELSE Insert(times, Sort(times, SubSeq(list, 1, Len(list) - 1)), list[Len(list)])

\* setFriends(res.data) of Sidebar's fetchFriends
setFriends(list) ==
    /\ friends # list
    /\ friends' = list
    /\ UNCHANGED <<db, members, userSocketMap, rooms, reqs, inbox>>
    /\ UNCHANGED <<messages, selectedUser, socket, currentSocket, handlers, listeners, fetch>>
    /\ UNCHANGED <<userLastMessageTime, sidebarSocket, filteredUsers, rebuild, earlierFetch, socialVars>>

\* new Date(lastMsg.createdAt).getTime() of the last message of a history
LastTime(history) == IF history = <<>> THEN 0 ELSE history[Len(history)].createdAt

\* Sidebar's effect on [friends]: fetchAllUserMessages requests the history
\* of every friend, with an empty timestamps object
fetchAllUserMessages ==
    /\ friends # <<>>
    /\ ~rebuild.pending
    /\ rebuild' = [pending |-> TRUE,
                   waiting |-> {friends[i]._id : i \in DOMAIN friends},
                   timestamps |-> [u \in Users |-> 0],
                   started |-> userLastMessageTime]
    /\ UNCHANGED <<db, members, userSocketMap, rooms, reqs, inbox>>
    /\ UNCHANGED <<messages, selectedUser, socket, currentSocket, handlers, listeners, fetch>>
    /\ UNCHANGED <<userLastMessageTime, sidebarSocket, friends, filteredUsers, earlierFetch, socialVars>>

\* the history of one friend is answered: its last time goes into timestamps
RebuildAnswer(u) ==
    /\ rebuild.pending
    /\ u \in rebuild.waiting
    /\ rebuild' = [rebuild EXCEPT
            !.waiting = @ \ {u},
            !.timestamps = IF u \in Users
                           THEN [@ EXCEPT ![u] = LastTime(History(db, Me, u, Null))]
                           ELSE @]
    /\ UNCHANGED <<db, members, userSocketMap, rooms, reqs, inbox>>
    /\ UNCHANGED <<messages, selectedUser, socket, currentSocket, handlers, listeners, fetch>>
    /\ UNCHANGED <<userLastMessageTime, sidebarSocket, friends, filteredUsers, earlierFetch, socialVars>>

\* Promise.all has resolved: setUserLastMessageTime(timestamps)
RebuildDone ==
    /\ rebuild.pending
    /\ rebuild.waiting = {}
    /\ userLastMessageTime' = rebuild.timestamps
    /\ rebuild' = NoRebuild
    /\ UNCHANGED <<db, members, userSocketMap, rooms, reqs, inbox>>
    /\ UNCHANGED <<messages, selectedUser, socket, currentSocket, handlers, listeners, fetch>>
    /\ UNCHANGED <<sidebarSocket, friends, filteredUsers, earlierFetch, socialVars>>

\* Sidebar renders: filteredUsers with showOnlineOnly off and an empty
\* searchTerm, for which both filters keep every friend
Render ==
    /\ filteredUsers' = Sort(userLastMessageTime, friends)
    /\ filteredUsers' # filteredUsers
    /\ UNCHANGED <<db, members, userSocketMap, rooms, reqs, inbox>>
    /\ UNCHANGED <<messages, selectedUser, socket, currentSocket, handlers, listeners, fetch>>
    /\ UNCHANGED <<userLastMessageTime, sidebarSocket, friends, rebuild, earlierFetch, socialVars>>

\* ------------------------------------------------------------------ subscription
NoHandlers == [e \in EventNames |-> 0]
NoListeners == [k \in SocketIds |-> [e \in EventNames |-> 0]]

\* variant: only the newMessage handler is taken off
OffNewMessageOnly(lst, sock, event) ==
    IF event = "newMessage" /\ handlers[event] # 0 /\ handlers[event] = sock /\ lst[sock][event] > 0
    THEN [lst EXCEPT ![sock][event] = @ - 1]
    ELSE lst

\* sock.off(event, handler) for the handler held in the slot of `event`
Off(lst, sock, event) ==
    IF handlers[event] # 0 /\ handlers[event] = sock /\ lst[sock][event] > 0
    THEN [lst EXCEPT ![sock][event] = @ - 1]
    ELSE lst

\* variant: the listeners are left on the socket
OffAllNothing(lst, sock) == lst

OffAll(lst, sock) ==
    [k \in SocketIds |-> [e \in EventNames |-> Off(lst, sock, e)[k][e]]]

\* sock.on(event, handler) for the four new handlers
OnAll(lst, sock) ==
    [lst EXCEPT ![sock] = [e \in EventNames |-> lst[sock][e] + 1]]

\* variant: no test for an existing subscription, the four listeners are
\* registered at every call
subscribeAlwaysRegisters ==
    /\ socket # 0
    /\ selectedUser # NoSel
    /\ listeners' = OnAll(listeners, socket)
    /\ handlers' = [e \in EventNames |-> socket]
    /\ currentSocket' = socket
    /\ UNCHANGED <<db, members, userSocketMap, rooms, reqs, inbox>>
    /\ UNCHANGED <<messages, selectedUser, socket, fetch>>
    /\ UNCHANGED <<sidebarVars, earlierFetch, socialVars>>

subscribeToMessages ==
    /\ socket # 0
    /\ selectedUser # NoSel
    /\ LET changed == currentSocket # 0 /\ currentSocket # socket
           lst1 == IF changed THEN OffAll(listeners, currentSocket) ELSE listeners
           slots1 == IF changed THEN NoHandlers ELSE handlers IN
        IF currentSocket = socket /\ slots1["newMessage"] # 0
        THEN /\ listeners' = lst1
             /\ handlers' = slots1
             /\ UNCHANGED currentSocket
        ELSE /\ listeners' = OnAll(IF slots1["newMessage"] # 0
                                   THEN OffAll(lst1, socket) ELSE lst1, socket)
             /\ handlers' = [e \in EventNames |-> socket]
             /\ currentSocket' = socket
    /\ UNCHANGED <<db, members, userSocketMap, rooms, reqs, inbox>>
    /\ UNCHANGED <<messages, selectedUser, socket, fetch>>
    /\ UNCHANGED <<sidebarVars, earlierFetch, socialVars>>

\* variant: a call that gets past the early returns registers four more
\* listeners, whatever is bound
ListenersOnReturnAdds ==
    IF socket = 0 \/ selectedUser = NoSel THEN listeners ELSE OnAll(listeners, socket)

\* the listeners when a call of subscribeToMessages made in the current state
\* returns, its two early returns included
ListenersOnReturn ==
    IF socket = 0 \/ selectedUser = NoSel THEN listeners
    ELSE LET changed == currentSocket # 0 /\ currentSocket # socket
             lst1 == IF changed THEN OffAll(listeners, currentSocket) ELSE listeners
             slots1 == IF changed THEN NoHandlers ELSE handlers IN
         IF currentSocket = socket /\ slots1["newMessage"] # 0
         THEN lst1
         ELSE OnAll(IF slots1["newMessage"] # 0 THEN OffAll(lst1, socket) ELSE lst1, socket)

\* variant: the slots are emptied and currentSocket is left as it is
unsubscribeKeepsSocket ==
    /\ IF currentSocket # 0
       THEN /\ listeners' = OffAll(listeners, currentSocket)
            /\ handlers' = NoHandlers
            /\ UNCHANGED currentSocket
       ELSE UNCHANGED <<listeners, handlers, currentSocket>>
    /\ UNCHANGED <<db, members, userSocketMap, rooms, reqs, inbox>>
    /\ UNCHANGED <<messages, selectedUser, socket, fetch>>
    /\ UNCHANGED <<sidebarVars, earlierFetch, socialVars>>

unsubscribeFromMessages ==
    /\ IF currentSocket # 0
       THEN /\ listeners' = OffAll(listeners, currentSocket)
            /\ handlers' = NoHandlers
            /\ currentSocket' = 0
       ELSE UNCHANGED <<listeners, handlers, currentSocket>>
    /\ UNCHANGED <<db, members, userSocketMap, rooms, reqs, inbox>>
    /\ UNCHANGED <<messages, selectedUser, socket, fetch>>
    /\ UNCHANGED <<sidebarVars, earlierFetch, socialVars>>

\* useAuthStore: Me's client opens a connection (a new socket object) or
\* closes it
InUse(k) ==
    \/ currentSocket = k
    \/ \E e \in EventNames : handlers[e] = k \/ listeners[k][e] > 0

ConnectMe ==
    /\ socket = 0
    /\ \E k \in SocketIds :
        /\ ~InUse(k)
        /\ \A j \in SocketIds : j < k => InUse(j)
        /\ socket' = k
        /\ userSocketMap' = [userSocketMap EXCEPT ![Me] = k]
    /\ UNCHANGED <<db, members, rooms, reqs, inbox>>
    /\ UNCHANGED <<messages, selectedUser, currentSocket, handlers, listeners, fetch>>
    /\ UNCHANGED <<sidebarVars, earlierFetch, socialVars>>

DisconnectMe ==
    /\ socket # 0
    /\ socket' = 0
    /\ userSocketMap' = [userSocketMap EXCEPT ![Me] = 0]
    /\ rooms' = [g \in Groups |-> rooms[g] \ {Me}]
    /\ inbox' = <<>>
    /\ UNCHANGED <<db, members, reqs>>
    /\ UNCHANGED <<messages, selectedUser, currentSocket, handlers, listeners, fetch>>
    /\ UNCHANGED <<sidebarVars, earlierFetch, socialVars>>

\* the store has a listener for the event on the current socket
Listening(event) == socket # 0 /\ listeners[socket][event] > 0

\* ------------------------------------------------------------------ specifications
Init ==
    /\ db = <<>>
    /\ members = [g \in Groups |-> {"X", "Y"}]
    /\ userSocketMap = [u \in Users |-> 0]
    /\ rooms = [g \in Groups |-> {}]
    /\ reqs = [s \in Slots |-> Idle]
    /\ inbox = <<>>
    /\ messages = <<>>
    /\ selectedUser = NoSel
    /\ socket = 0
    /\ currentSocket = 0
    /\ handlers = NoHandlers
    /\ listeners = NoListeners
    /\ fetch = NoFetch
    /\ userLastMessageTime = [u \in Users |-> 0]
    /\ sidebarSocket = 0
    /\ friends = <<>>
    /\ filteredUsers = <<>>
    /\ rebuild = NoRebuild
    /\ earlierFetch = NoFetch
    /\ friendRequests = <<>>
    /\ userFriends = [u \in Users |-> {}]
    /\ social = [s \in Slots |-> Idle]

\* a response is taken by its caller before anything else is observed
ResponsePending ==
    \E s \in Slots : reqs[s].op # "idle" /\ reqs[s].phase = "responded" /\ ~reqs[s].call.store

Quiet == \A s \in Slots : reqs[s] = Idle

MutationBegins(actors) ==
    \/ \E u \in actors, id \in MessageIds, t \in EditTexts : EditBegin(u, id, t)
    \/ \E u \in actors, id \in MessageIds : DeleteBegin(u, id)
    \/ \E u \in actors, id \in MessageIds : PinBegin(u, id)

MutationSteps ==
    \/ \E s \in Slots : EditSave(s)
    \/ \E s \in Slots : EditEmit(s)
    \/ \E s \in Slots : DeleteSave(s)
    \/ \E s \in Slots : DeleteEmit(s)
    \/ \E s \in Slots : PinSave(s)
    \/ \E s \in Slots : PinEmit(s)

\* StoreSpec: the message store, one request at a time, nobody connected
StoreNext ==
    \/ \E s \in Slots : Respond(s)
    \/ /\ Quiet
       /\ Len(db) < StoreMessages
       /\ \E u \in Users, r \in Users \cup {Null}, g \in Groups \cup {Null}, p \in SendPayloads :
            PeerSend(u, r, g, p[1], p[2])
    \/ Quiet /\ MutationBegins(Users)
    \/ \E s \in Slots : SendEmit(s)
    \/ MutationSteps
    \/ Quiet /\ \E g \in Groups, u \in Users : AddMembersToGroup(g, u)
    \/ Quiet /\ \E g \in Groups, u \in Users : RemoveMemberFromGroup(g, u)

StoreSpec == Init /\ [][StoreNext]_vars

\* RaceSpec: requests on one direct message overlap
RaceNext ==
    \/ \E s \in Slots : Respond(s)
    \/ /\ ~ResponsePending
       /\ Len(db) < StoreMessages
       /\ PeerSend("Y", "X", Null, <<1>>, Null)
    \/ ~ResponsePending /\ MutationBegins({"X", "Y"})
    \/ ~ResponsePending /\ \E s \in Slots : SendEmit(s)
    \/ ~ResponsePending /\ MutationSteps

RaceSpec == Init /\ [][RaceNext]_vars

\* RouterSpec: one request at a time while sessions come and go; Me's client
\* has no listener bound and takes each event as it comes
Settled == ~ResponsePending /\ inbox = <<>>

RouterNext ==
    \/ \E s \in Slots : Respond(s)
    \/ ~ResponsePending /\ ReceiveEvent
    \/ /\ Settled
       /\ Quiet
       /\ Len(db) < StoreMessages
       /\ \E u \in Users, r \in Users \cup {Null}, g \in Groups \cup {Null}, p \in SendPayloads :
            PeerSend(u, r, g, p[1], p[2])
    \/ Settled /\ Quiet /\ MutationBegins(Users)
    \/ Settled /\ \E s \in Slots : SendEmit(s)
    \/ Settled /\ MutationSteps
    \/ Settled /\ \E u \in Users : Connect(u)
    \/ Settled /\ \E u \in Users : Disconnect(u)
    \/ Settled /\ \E u \in Users, g \in Groups : JoinRoom(u, g)
    \/ Settled /\ \E u \in Users, g \in Groups : LeaveRoom(u, g)
    \/ Settled /\ ConnectMe
    \/ Settled /\ DisconnectMe

RouterSpec == Init /\ [][RouterNext]_vars

\* ClientSpec: Me's client store against sends by Me and by the peer Y, one
\* request at a time; events and responses arrive in any order
PeerSends == {<<"Y", Me, Null>>, <<"Y", Null, "G">>}

Calm == ~ResponsePending /\ ~fetch.pending

ClientNext ==
    \/ \E s \in Slots : Respond(s)
    \/ ~ResponsePending /\ GetMessagesDone
    \/ Calm /\ Quiet /\ \E a \in PeerSends : PeerSend(a[1], a[2], a[3], <<1>>, Null)
    \/ Calm /\ Quiet /\ StoreSendMessage(<<1>>, Null)
    \/ Calm /\ \E s \in Slots : StoreSendArrives(s)
    \/ Calm /\ \E s \in Slots : SendEmit(s)
    \/ Calm /\ \E s \in Slots : StoreSendDone(s)
    \/ Calm /\ ReceiveEvent
    \/ Calm /\ \E u \in Users \ {Me} : GetMessages(u, Null)
    \/ Calm /\ \E g \in Groups : GetMessages(g, g)
    \/ Calm /\ \E sel \in Selections : setSelectedUser(sel)
    \/ Calm /\ subscribeToMessages
    \/ Calm /\ unsubscribeFromMessages
    \/ Calm /\ ConnectMe
    \/ Calm /\ \E g \in Groups : JoinRoom(Me, g)

ClientSpec == Init /\ [][ClientNext]_vars

\* SubscriptionSpec: the life of the store's subscription while Me's client
\* connects and disconnects, the conversation is switched and the peer's
\* messages arrive
SubscriptionNext ==
    \/ \E s \in Slots : Respond(s)
    \/ ~ResponsePending /\ ReceiveEvent
    \/ Settled /\ Quiet /\ PeerSend("Y", Me, Null, <<1>>, Null)
    \/ Settled /\ \E s \in Slots : SendEmit(s)
    \/ Settled /\ \E sel \in Selections : setSelectedUser(sel)
    \/ Settled /\ subscribeToMessages
    \/ Settled /\ unsubscribeFromMessages
    \/ Settled /\ ConnectMe
    \/ Settled /\ DisconnectMe

SubscriptionSpec == Init /\ [][SubscriptionNext]_vars

\* SyncSpec: Me's store, subscribed with the peer Y selected, follows a
\* message of Y to Me while both edit, delete and pin it once it is listed,
\* requests overlapping;
\* the client handles each event before the server takes its next step
Following == Listening("newMessage") /\ selectedUser = SelUser("Y")

SyncNext ==
    \/ \E s \in Slots : Respond(s)
    \/ ~ResponsePending /\ ReceiveEvent
    \/ ~Following /\ ConnectMe
    \/ ~Following /\ setSelectedUser(SelUser("Y"))
    \/ ~Following /\ subscribeToMessages
    \/ /\ Following
       /\ Settled
       /\ Len(db) < StoreMessages
       /\ PeerSend("Y", Me, Null, <<1>>, Null)
    \/ Following /\ Settled /\ Len(messages) = Len(db) /\ MutationBegins({"X", "Y"})
    \/ Settled /\ \E s \in Slots : SendEmit(s)
    \/ Settled /\ MutationSteps

SyncSpec == Init /\ [][SyncNext]_vars

\* RecencySpec: the Sidebar of Me's client while messages to and from Me are
\* sent, sends overlapping
RecencySends == {<<"Y", Me, Null>>, <<"Z", Me, Null>>, <<Me, "Y", Null>>, <<"Y", Null, "G">>}

RecencyNext ==
    \/ \E s \in Slots : Respond(s)
    \/ ~ResponsePending /\ ReceiveEvent
    \/ ~ResponsePending /\ ConnectMe
    \/ ~ResponsePending /\ SidebarEffect
    \/ ~ResponsePending /\ \E g \in Groups : JoinRoom(Me, g)
    \/ ~ResponsePending /\ \E a \in RecencySends : PeerSend(a[1], a[2], a[3], <<1>>, Null)
    \/ ~ResponsePending /\ \E s \in Slots : SendEmit(s)

RecencySpec == Init /\ [][RecencyNext]_vars

\* InFlightSpec: Me's store, subscribed to the conversation with Y, sends
\* while Y's messages arrive; nothing is fetched, so the list only holds what
\* the event handlers and the send completions put there
InFlightNext ==
    \/ \E s \in Slots : Respond(s)
    \/ ~ResponsePending /\ ReceiveEvent
    \/ ~Following /\ ConnectMe
    \/ ~Following /\ setSelectedUser(SelUser("Y"))
    \/ ~Following /\ subscribeToMessages
    \/ Following /\ ~ResponsePending /\ PeerSend("Y", Me, Null, <<1>>, Null)
    \/ Following /\ ~ResponsePending /\ StoreSendMessage(<<1>>, Null)
    \/ ~ResponsePending /\ \E s \in Slots : StoreSendArrives(s)
    \/ ~ResponsePending /\ \E s \in Slots : SendEmit(s)
    \/ ~ResponsePending /\ \E s \in Slots : StoreSendDone(s)

InFlightSpec == Init /\ [][InFlightNext]_vars

\* UpdateSpec: Me's store, connected, joined to the room of G and subscribed,
\* shows G or the conversation with Y while Y's messages to G and to Me are
\* edited, deleted and pinned by X and by Y, one request at a time
Ready == Listening("newMessage") /\ Me \in rooms["G"]

UpdateNext ==
    \/ \E s \in Slots : Respond(s)
    \/ ~ResponsePending /\ ReceiveEvent
    \/ ~Ready /\ ConnectMe
    \/ ~Ready /\ \E g \in Groups : JoinRoom(Me, g)
    \/ ~Ready /\ subscribeToMessages
    \/ Settled /\ Quiet /\ \E sel \in {SelGroup("G"), SelUser("Y")} : setSelectedUser(sel)
    \/ Ready /\ Settled /\ Quiet /\ \E a \in PeerSends : PeerSend(a[1], a[2], a[3], <<1>>, Null)
    \/ Ready /\ Settled /\ Quiet /\ MutationBegins({"X", "Y"})
    \/ Settled /\ \E s \in Slots : SendEmit(s)
    \/ Settled /\ MutationSteps

UpdateSpec == Init /\ [][UpdateNext]_vars

\* ClassifySpec: Y's sends to Me and to G, with and without a sentiment field,
\* while the classifier answers or fails; one request at a time
Verdicts == {NeutralVerdict, ToxicVerdict, ClassificationFails}

ClassifyNext ==
    \/ \E s \in Slots : Respond(s)
    \/ /\ Quiet
       /\ \E a \in PeerSends, p \in SendPayloads, sentiment \in Sentiments \cup {Null},
             verdict \in Verdicts :
            ClassifiedSend(a[1], a[2], a[3], p[1], p[2], sentiment, verdict)
    \/ \E s \in Slots : SendEmit(s)

ClassifySpec == Init /\ [][ClassifyNext]_vars

\* SidebarSpec: the Sidebar next to the store: the conversation is switched,
\* the store subscribes and unsubscribes, and messages to Me and to G are
\* sent and then edited, deleted and pinned by Y, one request at a time
SidebarNext ==
    \/ \E s \in Slots : Respond(s)
    \/ ~ResponsePending /\ ReceiveEvent
    \/ Settled /\ Quiet /\ ConnectMe
    \/ Settled /\ Quiet /\ SidebarEffect
    \/ Settled /\ Quiet /\ \E g \in Groups : JoinRoom(Me, g)
    \/ Settled /\ Quiet /\ \E sel \in Selections : setSelectedUser(sel)
    \/ Settled /\ Quiet /\ subscribeToMessages
    \/ Settled /\ Quiet /\ unsubscribeFromMessages
    \/ /\ Settled
       /\ Quiet
       /\ Len(db) < StoreMessages
       /\ \E a \in RecencySends : PeerSend(a[1], a[2], a[3], <<1>>, Null)
    \/ Settled /\ Quiet /\ MutationBegins({"Y"})
    \/ Settled /\ \E s \in Slots : SendEmit(s)
    \/ Settled /\ MutationSteps

SidebarSpec == Init /\ [][SidebarNext]_vars

\* FetchSpec: Y and Z have written to Me; Me opens their conversations one
\* after the other, the history of each being fetched when it is opened, and
\* the responses arrive in any order
FetchNext ==
    \/ \E s \in Slots : Respond(s)
    \/ /\ Quiet
       /\ selectedUser = NoSel
       /\ \E u \in Users \ {Me} : PeerSend(u, Me, Null, <<1>>, Null)
    \/ \E s \in Slots : SendEmit(s)
    \/ Quiet /\ \E u \in Users \ {Me} : setSelectedUser(SelUser(u))
    \/ \E u \in Users \ {Me} : selectedUser = SelUser(u) /\ GetMessages(u, Null)
    \/ \E u \in Users \ {Me} : selectedUser = SelUser(u) /\ GetMessagesOvertaking(u, Null)
    \/ GetMessagesDone
    \/ EarlierFetchDone

FetchSpec == Init /\ [][FetchNext]_vars

\* RebuildSpec: the Sidebar of Me, with friends Y and Z, rebuilds its times
\* from the histories while the direct messages of Y arrive
MyFriends == <<[_id |-> "Y", fullName |-> 1], [_id |-> "Z", fullName |-> 2]>>

RebuildNext ==
    \/ \E s \in Slots : Respond(s)
    \/ ~ResponsePending /\ ReceiveEvent
    \/ ~ResponsePending /\ ConnectMe
    \/ ~ResponsePending /\ SidebarEffect
    \/ ~ResponsePending /\ PeerSend("Y", Me, Null, <<1>>, Null)
    \/ ~ResponsePending /\ \E s \in Slots : SendEmit(s)
    \/ ~ResponsePending /\ setFriends(MyFriends)
    \/ ~ResponsePending /\ fetchAllUserMessages
    \/ ~ResponsePending /\ \E u \in Users \ {Me} : RebuildAnswer(u)
    \/ ~ResponsePending /\ RebuildDone

RebuildSpec == Init /\ [][RebuildNext]_vars

\* FriendSpec: X and Y send each other friend requests, accept and reject
\* them and unfriend each other, at most MaxInFlight requests at a time,
\* their steps in any order
RequestIds == 1..MaxRequests
Acquainted == {"X", "Y"}

FriendNext ==
    \/ \E a, b \in Acquainted : SendRequestBegin(a, b)
    \/ \E s \in Slots : SendRequestExisting(s)
    \/ \E s \in Slots : SendRequestReverse(s)
    \/ \E s \in Slots : SendRequestCreate(s)
    \/ \E u \in Acquainted, i \in RequestIds : AcceptBegin(u, i)
    \/ \E s \in Slots : AcceptSave(s)
    \/ \E s \in Slots, side \in {"sender", "receiver"} : AcceptAddFriend(s, side)
    \/ \E u \in Acquainted, i \in RequestIds : RejectBegin(u, i)
    \/ \E s \in Slots : RejectSave(s)
    \/ \E a, b \in Acquainted : UnfriendBegin(a, b)
    \/ \E s \in Slots, side \in {"current", "friend"} : UnfriendPull(s, side)
    \/ \E s \in Slots : UnfriendDeleteRequests(s)

FriendSpec == Init /\ [][FriendNext]_vars

\* ListSpec: the Sidebar renders a list of three friends, in any order and
\* with any names, against any recorded times
FriendLists ==
    {l \in [1..Cardinality(FriendIds) -> [_id : FriendIds, fullName : Names]] :
        \A i, j \in DOMAIN l : l[i]._id = l[j]._id => i = j}

ListInit ==
    /\ db = <<>>
    /\ members = [g \in Groups |-> {"X", "Y"}]
    /\ userSocketMap = [u \in Users |-> 0]
    /\ rooms = [g \in Groups |-> {}]
    /\ reqs = [s \in Slots |-> Idle]
    /\ inbox = <<>>
    /\ messages = <<>>
    /\ selectedUser = NoSel
    /\ socket = 0
    /\ currentSocket = 0
    /\ handlers = NoHandlers
    /\ listeners = NoListeners
    /\ fetch = NoFetch
    /\ userLastMessageTime \in [Users -> 0..MaxTime]
    /\ userLastMessageTime[Me] = 0
    /\ sidebarSocket = 0
    /\ friends \in FriendLists
    /\ filteredUsers = <<>>
    /\ rebuild = NoRebuild
    /\ earlierFetch = NoFetch
    /\ friendRequests = <<>>
    /\ userFriends = [u \in Users |-> {}]
    /\ social = [s \in Slots |-> Idle]

ListNext == Render

ListSpec == ListInit /\ [][ListNext]_vars

\* ------------------------------------------------------------------ properties
Mutations == {"edit", "delete", "pin"}

Answered(s) == reqs[s].op # "idle" /\ reqs[s].phase = "responded"
Succeeded(s) == Answered(s) /\ reqs[s].status \in {200, 201}

\* the conversation a message belongs to, as seen from Me's selection
BelongsToConversation(sel, m) ==
    /\ sel # NoSel
    /\ \/ m.groupId # Null /\ sel.groupId = m.groupId
       \/ m.groupId = Null /\ sel.groupId = Null
            /\ {m.senderId, m.receiverId} = {Me, sel._id}

\* the entry of the list is the stored row as the server shows it
SameVersion(m, row) ==
    /\ m.text = messageForSocket(row).text
    /\ m.edited = row.edited
    /\ m.isDeleted = row.isDeleted
    /\ m.pinned = row.pinned

\* C1: the client's list never holds two entries with the same message id,
\* whatever the order in which created events and the responses to the
\* client's own sends arrive
NoDuplicateIds ==
    \A i, j \in 1..Len(messages) : messages[i]._id = messages[j]._id => i = j

\* the response to Me's send has put the message in the list and its created
\* event now reaches the subscribed store
DuplicateArrives ==
    /\ inbox # <<>>
    /\ Head(inbox).type = "newMessage"
    /\ Head(inbox).msg.senderId = Me
    /\ HasId(messages, Head(inbox).msg._id)
    /\ Listening("newMessage")
    /\ BelongsToConversation(selectedUser, Head(inbox).msg)

\* C2: a created event handled by the subscribed store appends its message
\* when the message belongs to the active conversation (same group id, or the
\* unordered pair {sender, receiver} is {Me, selected peer}) and is not yet
\* listed; any other created event leaves the list unchanged
OnlyRelevantAppended ==
    [][(ReceiveEvent /\ Head(inbox).type = "newMessage" /\ Listening("newMessage"))
        => LET m == Head(inbox).msg IN
           messages' = IF BelongsToConversation(selectedUser, m) /\ ~HasId(messages, m._id)
                       THEN Append(messages, m)
                       ELSE messages]_vars

\* a created event of another conversation reaches the subscribed store, whose
\* list is not empty
IrrelevantArrives ==
    /\ inbox # <<>>
    /\ Head(inbox).type = "newMessage"
    /\ Listening("newMessage")
    /\ selectedUser # NoSel
    /\ ~BelongsToConversation(selectedUser, Head(inbox).msg)
    /\ messages # <<>>

\* C3: a stored message with isDeleted = true has no text
DeletedHasNoText ==
    \A i \in 1..Len(db) : db[i].isDeleted => db[i].text = NullText

\* C4: no toggle is lost: every pin request that saves flips the stored flag
EveryToggleFlips ==
    [][\A s \in Slots :
        PinSave(s) => db'[reqs[s].doc._id].pinned # db[reqs[s].doc._id].pinned]_vars

\* the audience of a message's events: the sockets joined to the group's room,
\* or the sender and the receiver
Audience(row) ==
    IF row.groupId # Null THEN rooms[row.groupId] ELSE {row.senderId, row.receiverId}

\* C5: the event of a successful request is addressed only to connected users
\* of the message's audience
OnlyAudienceNotified ==
    \A s \in Slots : Succeeded(s) =>
        \A u \in Users : reqs[s].deliv[u] > 0 =>
            Connected(u) /\ u \in Audience(db[reqs[s].id])

\* an event went out while a user outside the audience was connected
OutsiderConnected ==
    \E s \in Slots :
        /\ Succeeded(s)
        /\ \E u \in Users : reqs[s].deliv[u] > 0
        /\ \E u \in Users : Connected(u) /\ u \notin Audience(db[reqs[s].id])

\* C6: a successful edit, delete or pin of a direct message is addressed to
\* the message's sender and to its receiver, each if connected
ParticipantsNotified ==
    \A s \in Slots :
        (Succeeded(s) /\ reqs[s].op \in Mutations /\ db[reqs[s].id].groupId = Null) =>
            \A u \in {db[reqs[s].id].senderId, db[reqs[s].id].receiverId} :
                Connected(u) => reqs[s].deliv[u] >= 1

\* C7: the event of a successful request is addressed to each user at most once
AtMostOnce ==
    \A s \in Slots : Succeeded(s) => \A u \in Users : reqs[s].deliv[u] <= 1

\* who may edit, delete or pin a message
MayMutate(row, u) ==
    \/ row.senderId = u
    \/ row.groupId = Null /\ row.receiverId = u
    \/ row.groupId # Null /\ u \in members[row.groupId]

\* C8: an edit, delete or pin of an existing message goes ahead exactly when
\* the actor is the sender, the receiver of the direct message or a member of
\* the message's group, and is answered 403 otherwise
PermissionDecides ==
    \A s \in Slots :
        (reqs[s].op \in Mutations /\ reqs[s].phase \in {"loaded", "saved"}
            => MayMutate(db[reqs[s].doc._id], reqs[s].actor))
        /\ (reqs[s].op \in Mutations /\ Answered(s) /\ reqs[s].id <= Len(db)
            => /\ reqs[s].status \in {200, 403}
               /\ reqs[s].status = 200 <=> MayMutate(db[reqs[s].id], reqs[s].actor))

\* a user who is not a member was refused on a group message
OutsiderRefused ==
    \E s \in Slots :
        /\ reqs[s].op \in Mutations
        /\ Answered(s)
        /\ reqs[s].status = 403
        /\ reqs[s].id <= Len(db)
        /\ db[reqs[s].id].groupId # Null

\* C9: a step that answers an edit, delete or pin with 404 or 403 leaves the
\* stored messages as they were and emits nothing
RejectionLeavesNoTrace ==
    [][\A s \in Slots :
        (reqs'[s] # reqs[s] /\ reqs'[s].op \in Mutations
            /\ reqs'[s].phase = "responded" /\ reqs'[s].status \in {403, 404})
        => db' = db /\ inbox' = inbox /\ reqs'[s].deliv = NoDeliveries]_vars

\* a request was refused while a user of the message's audience was connected
RefusedWithAudience ==
    \E s \in Slots :
        /\ reqs[s].op \in Mutations
        /\ Answered(s)
        /\ reqs[s].status = 403
        /\ \E u \in Audience(db[reqs[s].id]) : Connected(u)

\* neither content nor media: no image and a text that is empty or blank
NoContent(text, image) == image = Null /\ \A i \in 1..Len(text) : text[i] = Blank

\* C10: a send with neither content nor media is answered 400, stores nothing
\* and emits nothing
EmptySendRejected ==
    [][\A s \in Slots :
        (reqs[s] = Idle /\ reqs'[s] # Idle /\ reqs'[s].op = "send") =>
            \A p \in {q \in SendPayloads : NoContent(q[1], q[2])},
               u \in Users, r \in Users \cup {Null}, g \in Groups \cup {Null} :
                SendMessage(s, u, r, g, p[1], p[2], NoCall)
                => /\ db' = db
                   /\ inbox' = inbox
                   /\ reqs'[s].phase = "responded"
                   /\ reqs'[s].status = 400
                   /\ reqs'[s].deliv = NoDeliveries]_vars

\* an empty send was refused while its sender was connected
EmptySendRefused ==
    \E s \in Slots :
        /\ reqs[s].op = "send"
        /\ Answered(s)
        /\ reqs[s].status = 400
        /\ Connected(reqs[s].actor)

\* C11: a delete that saves leaves a tombstone: isDeleted is set and the text
\* is null, so nothing is revealed, and every other field of the row (image,
\* sentiment, sender, receiver, group, pinned, edited, replyTo, createdAt)
\* is as it was
TombstoneKeepsTheRest ==
    [][\A s \in Slots :
        DeleteSave(s) =>
            LET id == reqs[s].doc._id IN
            /\ db'[id].isDeleted
            /\ db'[id].text = NullText
            /\ messageForSocket(db'[id]).text = NullText
            /\ \A f \in Fields \ {"isDeleted", "text"} : db'[id][f] = db[id][f]]_vars

\* a message with an image has been deleted and keeps the image
TombstoneWithImage ==
    \E s \in Slots :
        /\ reqs[s].op = "delete"
        /\ reqs[s].phase = "saved"
        /\ db[reqs[s].doc._id].isDeleted
        /\ db[reqs[s].doc._id].image # Null

RECURSIVE ListenerCount(_, _)
ListenerCount(k, event) ==
    IF k = 0 THEN 0 ELSE listeners[k][event] + ListenerCount(k - 1, event)

\* C13: over all the sockets the client has had, the store has at most one
\* listener registered for each of the four events
AtMostOneListener ==
    \A e \in EventNames : ListenerCount(Cardinality(SocketIds), e) <= 1

\* after a reconnection the store is subscribed on the second socket
ResubscribedAfterReconnect ==
    /\ socket = 2
    /\ currentSocket = 2
    /\ \A e \in EventNames : listeners[2][e] = 1

\* C14: a subscribeToMessages call made with no connection change (the store
\* is unbound, or bound to the current socket) leaves exactly one listener
\* for each event on that socket and none elsewhere
RebindKeepsOneSet ==
    [][(subscribeToMessages /\ currentSocket \in {0, socket}) =>
        \A e \in EventNames, k \in SocketIds :
            listeners'[k][e] = IF k = socket THEN 1 ELSE 0]_vars

\* the store is bound to the first connection while a group is selected
BoundAfterSwitch ==
    /\ socket = 1
    /\ currentSocket = 1
    /\ selectedUser = SelGroup("G")
    /\ \A e \in EventNames : handlers[e] = 1 /\ listeners[1][e] = 1

\* C15: handling an edited, deleted or pinned event a second time changes
\* nothing: the list after the event is the list the same event, applied
\* again, yields
UpdateIdempotent ==
    [][(ReceiveEvent /\ Head(inbox).type # "newMessage" /\ Listening(Head(inbox).type))
        => ApplyEvent(messages', selectedUser, Head(inbox)) = messages']_vars

\* the same update of a listed message is on the channel twice
UpdateArrivesTwice ==
    /\ Len(inbox) >= 2
    /\ inbox[1] = inbox[2]
    /\ inbox[1].type # "newMessage"
    /\ Listening(inbox[1].type)
    /\ HasId(messages, inbox[1].msg._id)

\* C19: when no request is in flight and every event has been handled, each
\* entry of the list for a message sent to Me (whose events all reach Me)
\* equals the stored row in text, edited, isDeleted and pinned
Converged ==
    (Quiet /\ inbox = <<>>) =>
        \A i \in 1..Len(messages) :
            db[messages[i]._id].receiverId = Me
                => SameVersion(messages[i], db[messages[i]._id])

\* C16: the time the Sidebar keeps for a user never decreases
RecencyMonotonic ==
    [][\A u \in Users : userLastMessageTime'[u] >= userLastMessageTime[u]]_vars

\* C17: the response of a send whose conversation is no longer the selected
\* one is not applied to the list of the conversation now selected
StaleResponseDropped ==
    [][\A s \in Slots :
        (/\ StoreSendDone(s)
         /\ reqs[s].status = 201
         /\ ~BelongsToConversation(selectedUser, reqs[s].data))
        => messages' = messages]_vars

\* C18: when the response of a send is applied, every message the list held
\* from events handled during the request is still there, next to the sent one
ResponseKeepsEvents ==
    [][\A s \in Slots :
        (/\ StoreSendDone(s)
         /\ reqs[s].status = 201
         /\ BelongsToConversation(selectedUser, reqs[s].data)
         /\ \A i \in 1..Len(messages) : BelongsToConversation(selectedUser, messages[i]))
        => /\ \A i \in 1..Len(messages) : \E j \in 1..Len(messages') : messages'[j] = messages[i]
           /\ HasId(messages', reqs[s].data._id)]_vars

\* the list holds message m exactly once, with m's text and not deleted
OneEntry(msgs, m) ==
    /\ Cardinality({i \in 1..Len(msgs) : msgs[i]._id = m._id}) = 1
    /\ \A i \in 1..Len(msgs) :
            msgs[i]._id = m._id => msgs[i].text = m.text /\ ~msgs[i].isDeleted

DirectBetweenTwo(m) == m.groupId = Null /\ m.receiverId # Null /\ m.senderId # m.receiverId

\* C20: a direct message from one user to another is stored with the
\* submitted text and not deleted; its created event goes once to the
\* connected session of the sender and once to that of the receiver; and the
\* client showing their conversation holds exactly one entry for it, with
\* that text and not deleted, after the event as after the send response
DirectSendReconciled ==
    [][/\ \A s \in Slots :
            (/\ reqs[s].op = "send" /\ reqs[s].phase = "sent"
             /\ reqs'[s].op = "send" /\ reqs'[s].phase = "saved"
             /\ reqs[s].groupId = Null)
            => /\ messageForSocket(reqs'[s].doc).text = reqs[s].text
               /\ ~reqs'[s].doc.isDeleted
       /\ \A s \in Slots :
            (/\ reqs[s].op = "send" /\ reqs[s].phase = "saved"
             /\ reqs'[s].op = "send" /\ reqs'[s].phase = "responded"
             /\ DirectBetweenTwo(reqs[s].doc))
            => /\ \A u \in Users :
                    reqs'[s].deliv[u] =
                        IF u \in {reqs[s].doc.senderId, reqs[s].doc.receiverId} /\ Connected(u)
                        THEN 1 ELSE 0
               /\ reqs'[s].data = messageForSocket(reqs[s].doc)
               /\ inbox' = inbox \o Copies(reqs'[s].deliv[Me],
                                [type |-> "newMessage", msg |-> reqs'[s].data])
       /\ \A s \in Slots :
            (/\ StoreSendDone(s)
             /\ reqs[s].status = 201
             /\ DirectBetweenTwo(reqs[s].data)
             /\ BelongsToConversation(selectedUser, reqs[s].data))
            => OneEntry(messages', reqs[s].data)
       /\ (/\ inbox # <<>>
           /\ inbox' = Tail(inbox)
           /\ Head(inbox).type = "newMessage"
           /\ DirectBetweenTwo(Head(inbox).msg)
           /\ Listening("newMessage")
           /\ BelongsToConversation(selectedUser, Head(inbox).msg))
          => OneEntry(messages', Head(inbox).msg)]_vars

\* the event of Me's own direct message has been handled by the subscribed
\* store and the send response is still to be applied
EchoBeforeResponse ==
    \E s \in Slots :
        /\ Succeeded(s)
        /\ reqs[s].op = "send"
        /\ reqs[s].call.store
        /\ DirectBetweenTwo(reqs[s].data)
        /\ reqs[s].deliv[Me] = 1
        /\ inbox = <<>>
        /\ Listening("newMessage")
        /\ BelongsToConversation(selectedUser, reqs[s].data)
        /\ OneEntry(messages, reqs[s].data)

PinTogglesAndTells ==
    [][/\ \A s \in Slots :
            PinSave(s) => db'[reqs[s].doc._id].pinned = ~db[reqs[s].doc._id].pinned
       /\ (\E i \in 1..Len(db) : db'[i].pinned # db[i].pinned) => \E s \in Slots : PinSave(s)
       /\ \A s \in Slots :
            PinEmit(s) =>
                /\ reqs'[s].status = 200
                /\ reqs'[s].data.pinned = db[reqs[s].doc._id].pinned
                /\ inbox' = inbox \o Copies(reqs'[s].deliv[Me],
                                [type |-> "messagePinned", msg |-> reqs'[s].data])
                /\ reqs[s].doc.groupId # Null =>
                        \A u \in Users :
                            reqs'[s].deliv[u] = IF u \in rooms[reqs[s].doc.groupId] THEN 1 ELSE 0
       /\ (Len(inbox') > Len(inbox) /\ inbox'[Len(inbox')].type = "messagePinned")
            => \E s \in Slots : PinEmit(s)]_vars

\* the second toggle of a message has been answered: the flag is back
ToggledBack ==
    \E s \in Slots :
        /\ reqs[s].op = "pin"
        /\ Succeeded(s)
        /\ ~reqs[s].data.pinned
        /\ ~db[reqs[s].id].pinned
        /\ reqs[s].deliv[Me] = 1

FailureStoresNeutral ==
    [][\A s \in Slots :
        (reqs[s] = Idle /\ reqs'[s] # Idle /\ reqs'[s].op = "send") =>
            \A a \in PeerSends, p \in {q \in SendPayloads : ~NoContent(q[1], q[2])},
               sentiment \in Sentiments \cup {Null} :
                ClassifiedSend(a[1], a[2], a[3], p[1], p[2], sentiment, ClassificationFails)
                => /\ reqs'[s].phase = "saved"
                   /\ db'[Len(db')] = reqs'[s].doc
                   /\ reqs'[s].doc.sentiment = "neutral"
                   /\ ~reqs'[s].doc.toxic]_vars

\* C25: whenever the store is bound to a connection that is no longer the
\* current one, a call of subscribeToMessages returns with no listener of the
\* store left on that old connection
OldConnectionCleared ==
    (currentSocket # 0 /\ currentSocket # socket) =>
        \A e \in EventNames : ListenersOnReturn[currentSocket][e] = 0

\* the store is subscribed on the current connection and a conversation is
\* selected
Bound ==
    /\ socket # 0
    /\ selectedUser # NoSel
    /\ currentSocket = socket
    /\ handlers["newMessage"] # 0

\* C26: a call of subscribeToMessages made while the store is bound to the
\* current connection changes nothing: the listeners on return are the ones
\* before the call, one per event on the current socket, no step of the call
\* changes the state, and an event handled then is applied once
ResubscribeChangesNothing ==
    /\ [](Bound => /\ ListenersOnReturn = listeners
                   /\ \A e \in EventNames : listeners[socket][e] = 1)
    /\ [][(Bound /\ subscribeToMessages) => UNCHANGED vars]_vars
    /\ [][(Bound /\ ReceiveEvent) =>
            messages' = ApplyEvent(messages, selectedUser, Head(inbox))]_vars

\* an event reaches the bound store, which shows the conversation it belongs to
BoundStoreGetsEvent ==
    /\ Bound
    /\ inbox # <<>>
    /\ BelongsToConversation(selectedUser, Head(inbox).msg)

\* C27: unsubscribeFromMessages leaves no listener of the store on the bound
\* socket, empties the four handler slots and clears currentSocket, the
\* listeners on other sockets staying as they were; called with nothing bound
\* it changes nothing; while nothing is bound the store has no listener on
\* any socket and an event that arrives leaves the list as it is
UnsubscribeUnbinds ==
    /\ [][unsubscribeFromMessages =>
            /\ currentSocket' = 0
            /\ handlers' = NoHandlers
            /\ \A e \in EventNames, k \in SocketIds :
                    listeners'[k][e] = IF k = currentSocket THEN 0 ELSE listeners[k][e]]_vars
    /\ [][(currentSocket = 0 /\ unsubscribeFromMessages) => UNCHANGED vars]_vars
    /\ [](currentSocket = 0 => listeners = NoListeners)
    /\ [][(currentSocket = 0 /\ ReceiveEvent) => messages' = messages]_vars

\* the store, which has listed a message while subscribed, is unbound and an
\* event of the conversation it shows arrives
EventAfterUnsubscribe ==
    /\ currentSocket = 0
    /\ socket # 0
    /\ messages # <<>>
    /\ inbox # <<>>
    /\ BelongsToConversation(selectedUser, Head(inbox).msg)
    /\ ~HasId(messages, Head(inbox).msg._id)

\* C28: an edited, deleted or pinned event handled by the subscribed store
\* puts the event's message, whole, in the place of the entry with its id,
\* whatever conversation is shown; every other entry and the length stay, and
\* with no entry of that id the list is unchanged
UpdateReplacesInPlace ==
    [][(ReceiveEvent /\ Head(inbox).type # "newMessage" /\ Listening(Head(inbox).type))
        => LET m == Head(inbox).msg IN
           /\ Len(messages') = Len(messages)
           /\ \A i \in 1..Len(messages) :
                    messages'[i] = IF messages[i]._id = m._id THEN m ELSE messages[i]
           /\ ~HasId(messages, m._id) => messages' = messages]_vars

\* an update of a listed message arrives while the store shows a conversation
\* the message does not belong to, next to another entry
UpdateOutsideConversation ==
    /\ inbox # <<>>
    /\ Head(inbox).type # "newMessage"
    /\ Listening(Head(inbox).type)
    /\ Len(messages) = 2
    /\ selectedUser # NoSel
    /\ ~BelongsToConversation(selectedUser, Head(inbox).msg)
    /\ \E i \in 1..Len(messages) :
            messages[i]._id = Head(inbox).msg._id /\ messages[i] # Head(inbox).msg

\* the conversation partner a message stands for in Me's sidebar
OtherParty(m) ==
    IF m.groupId # Null THEN m.groupId
    ELSE IF m.senderId # Me THEN m.senderId
    ELSE m.receiverId

\* C29: a created event handled by the Sidebar changes the time of no key
\* but the other party's: the group of a group message, the peer of a direct
\* message; and the other party of a direct message gets the message's time
OnlyOtherPartyKey ==
    [][(/\ ReceiveEvent
        /\ Head(inbox).type = "newMessage"
        /\ sidebarSocket = userSocketMap[Me])
        => LET m == Head(inbox).msg IN
           /\ \A u \in Users :
                userLastMessageTime'[u] # userLastMessageTime[u] => u = OtherParty(m)
           /\ m.groupId = Null => userLastMessageTime'[OtherParty(m)] = m.createdAt]_vars

ListOrdered ==
    filteredUsers # <<>> =>
        /\ Len(filteredUsers) = Len(friends)
        /\ \A i \in DOMAIN friends : \E j \in DOMAIN filteredUsers : filteredUsers[j] = friends[i]
        /\ \A i, j \in DOMAIN filteredUsers :
            i < j =>
                LET timeI == TimeOf(userLastMessageTime, filteredUsers[i]._id)
                    timeJ == TimeOf(userLastMessageTime, filteredUsers[j]._id) IN
                /\ timeI >= timeJ
                /\ timeI = 0 => timeJ = 0
                /\ (timeI = 0 /\ timeJ = 0)
                        => filteredUsers[i].fullName <= filteredUsers[j].fullName

\* a list was rendered that the sort had to reorder: a friend with a time was
\* fetched behind two without, whose names were in reverse order
ListReordered ==
    /\ Len(filteredUsers) = 3
    /\ TimeOf(userLastMessageTime, friends[3]._id) > 0
    /\ TimeOf(userLastMessageTime, friends[1]._id) = 0
    /\ TimeOf(userLastMessageTime, friends[2]._id) = 0
    /\ friends[1].fullName > friends[2].fullName
    /\ filteredUsers = <<friends[3], friends[2], friends[1]>>

\* C32: an edit that passes the permission check, whoever the actor is,
\* carries the new text, which decodes to the value of the request; when it
\* saves, the stored text is that text and edited is set, and every other
\* field of the row (sentiment, toxic, sender, receiver, group, pinned,
\* isDeleted, image, replyTo, createdAt) is as it was
EditChangesTextOnly ==
    [][/\ \A u \in Users, id \in MessageIds, t \in EditTexts, s \in Slots :
            (EditBegin(u, id, t) /\ reqs[s] = Idle /\ reqs'[s].op = "edit"
                /\ reqs'[s].phase = "loaded") =>
                /\ messageForSocket(reqs'[s].doc).text = t
                /\ reqs'[s].doc.edited
       /\ \A s \in Slots :
            EditSave(s) =>
                LET id == reqs[s].doc._id IN
                /\ db'[id].text = reqs[s].doc.text
                /\ db'[id].edited
                /\ \A f \in Fields \ {"text", "edited"} : db'[id][f] = db[id][f]]_vars

\* the receiver of a pinned direct message has edited it, and the edit is saved
EditedByReceiver ==
    \E s \in Slots :
        /\ reqs[s].op = "edit"
        /\ reqs[s].phase = "saved"
        /\ db[reqs[s].doc._id].groupId = Null
        /\ reqs[s].actor = db[reqs[s].doc._id].receiverId
        /\ reqs[s].actor # db[reqs[s].doc._id].senderId
        /\ db[reqs[s].doc._id].edited
        /\ db[reqs[s].doc._id].text # NullText
        /\ db[reqs[s].doc._id].pinned

\* C33: an event enters a socket only in the step in which a request whose
\* row is saved emits, and all that enters in that step is the one event of
\* that request, of the type of its operation and about its row; a request is
\* answered 200 or 201 only by that step, so each successful send, edit,
\* delete or pin emits once; the step that saves emits nothing; and a request
\* that is refused (400, 403, 404, 500) wrote nothing and emits nothing
EmittedOnceAfterCommit ==
    [][/\ inbox' # inbox /\ Len(inbox') >= Len(inbox) =>
            \E s \in Slots :
                /\ reqs[s].op \in Mutations \cup {"send"}
                /\ reqs[s].phase = "saved"
                /\ reqs'[s].phase = "responded"
                /\ reqs[s].doc._id \in 1..Len(db)
                /\ \A f \in Fields \ {"text", "edited", "isDeleted", "pinned"} :
                        db[reqs[s].doc._id][f] = reqs[s].doc[f]
                /\ Len(inbox') > Len(inbox)
                /\ SubSeq(inbox', 1, Len(inbox)) = inbox
                /\ \A i \in (Len(inbox) + 1)..Len(inbox') :
                        /\ inbox'[i].type = EventName(reqs[s].op)
                        /\ inbox'[i].msg._id = reqs[s].doc._id
                        /\ inbox'[i] = inbox'[Len(inbox')]
       /\ \A s \in Slots :
            (reqs'[s] # reqs[s] /\ reqs'[s].op # "idle" /\ reqs'[s].phase = "responded") =>
                IF reqs'[s].status \in {200, 201}
                THEN /\ reqs[s].op = reqs'[s].op
                     /\ reqs[s].phase = "saved"
                     /\ db' = db
                     /\ Len(inbox') = Len(inbox) + reqs'[s].deliv[Me]
                ELSE /\ db' = db
                     /\ inbox' = inbox
                     /\ reqs'[s].deliv = NoDeliveries
       /\ \A s \in Slots :
            (reqs'[s] # reqs[s] /\ reqs'[s].op # "idle" /\ reqs'[s].phase \in {"loaded", "saved"})
                => inbox' = inbox]_vars

\* a delete of a saved row has been answered and its one event is in the
\* socket of the user
DeleteEmittedAfterSave ==
    \E s \in Slots :
        /\ reqs[s].op = "delete"
        /\ Succeeded(s)
        /\ reqs[s].deliv[Me] = 1
        /\ db[reqs[s].id].isDeleted
        /\ inbox # <<>>
        /\ inbox[Len(inbox)].type = "messageDeleted"
        /\ inbox[Len(inbox)].msg._id = reqs[s].id

\* C34: every stored message that is not deleted has a text that is not
\* blank or an image
LiveMessageHasContent ==
    \A i \in 1..Len(db) :
        ~db[i].isDeleted => ~NoContent(messageForSocket(db[i]).text, db[i].image)

\* C35: when the response of a getMessages call arrives after the response
\* of a later call has been applied, the list stays as the later response
\* set it: the history of the conversation opened last
LateResponseIgnored ==
    [][(EarlierFetchDone /\ ~fetch.pending) => messages' = messages]_vars

\* C36: when the rebuild completes, the time of every key that a created
\* event raised since the rebuild began is at least what that event set
RebuildKeepsLiveTimes ==
    [][RebuildDone =>
        \A u \in Users :
            userLastMessageTime[u] > rebuild.started[u] =>
                userLastMessageTime'[u] >= userLastMessageTime[u]]_vars

\* the pending requests between two users, in either direction
PendingBetween(a, b) ==
    {i \in 1..Len(friendRequests) :
        /\ friendRequests[i].status = "pending"
        /\ {friendRequests[i].sender, friendRequests[i].receiver} = {a, b}}

\* C37: between any two users there is at most one pending friend request,
\* the two directions counted together
AtMostOnePending ==
    \A a, b \in Users : Cardinality(PendingBetween(a, b)) <= 1

\* C38: an accept or a reject call that found the request accepted or
\* rejected leaves the status as it is and adds nobody to a friends list
TerminalStatusKept ==
    [][/\ \A s \in Slots :
            (/\ AcceptSave(s) \/ RejectSave(s)
             /\ social[s].loaded.status \in {"accepted", "rejected"})
                => friendRequests' = friendRequests
       /\ \A s \in Slots, side \in {"sender", "receiver"} :
            (AcceptAddFriend(s, side) /\ social[s].loaded.status # "pending")
                => userFriends' = userFriends]_vars

\* an accept or an unfriend is in flight
FriendshipInFlight == \E s \in Slots : social[s].op \in {"accept", "unfriend"}

\* C39: when no accept and no unfriend is in flight, a user is in the friends
\* of another exactly when the other is in its own
FriendshipSymmetric ==
    ~FriendshipInFlight =>
        \A a, b \in Users : b \in userFriends[a] <=> a \in userFriends[b]

\* C40: between the calls of the store, currentSocket is set exactly when
\* the four handler slots are, no slot is set without the others, and the
\* handlers in the slots are registered, once each, on the socket that
\* currentSocket records
BindingConsistent ==
    /\ currentSocket # 0 <=> \A e \in EventNames : handlers[e] # 0
    /\ (\E e \in EventNames : handlers[e] # 0) => \A e \in EventNames : handlers[e] # 0
    /\ currentSocket # 0 =>
            \A e \in EventNames :
                /\ handlers[e] = currentSocket
                /\ listeners[currentSocket][e] = 1

\* the store is still bound to the connection it subscribed on while the
\* client has opened another one
BoundToEarlierConnection ==
    /\ socket # 0
    /\ currentSocket # 0
    /\ currentSocket # socket
    /\ \A e \in EventNames : handlers[e] = currentSocket

====
